---- MODULE Spec2Model ----
(***************************************************************************)
(* A model of src/eval/collect_metrics.py: the heuristic scorers           *)
(* (evaluate_code_quality, evaluate_task_completion,                       *)
(* evaluate_response_coherence), their orchestration (evaluate_response)   *)
(* and the batch collector (collect_metrics).                              *)
(*                                                                         *)
(* A Python str is a sequence of one-character strings.  A score is an     *)
(* exact fraction [num, den] in lowest terms: the model computes the       *)
(* arithmetic of the source over the rationals, the rounding of IEEE       *)
(* doubles is not modelled.                                                *)
(***************************************************************************)
EXTENDS Integers, Sequences, FiniteSets, TLC

VARIABLES
    pc,          \* position of the running call: "call", "loop", "dump", "returned", "raised"
    response,    \* evaluate_response: the response text
    task_file,   \* evaluate_response: the content of the file task_file names
    start_time,  \* evaluate_response: the caller's start timestamp
    clock,       \* what time.time() returns
    result,      \* what the call returned, or the exception it raised
    files,       \* collect_metrics: results_dir.glob("*.txt"), in iteration order
    idx,         \* collect_metrics: the index of the next result file
    metrics,     \* collect_metrics: the metrics dict, in insertion order
    report       \* the content of evaluation_results.json

vars == <<pc, response, task_file, start_time, clock, result, files, idx, metrics, report>>

----------------------------------------------------------------------------
(* Characters and the str methods the source uses.                         *)

UpperCase == <<"A", "B", "C", "D", "E", "F", "G", "H", "I", "J", "K", "L", "M",
               "N", "O", "P", "Q", "R", "S", "T", "U", "V", "W", "X", "Y", "Z">>

LowerCase == <<"a", "b", "c", "d", "e", "f", "g", "h", "i", "j", "k", "l", "m",
               "n", "o", "p", "q", "r", "s", "t", "u", "v", "w", "x", "y", "z">>

Digits == {"0", "1", "2", "3", "4", "5", "6", "7", "8", "9"}

Range(f) == {f[i] : i \in DOMAIN f}

\* \s of the re module (ASCII part)
IsSpace(c) == c \in {" ", "\n", "\t", "\r", "\f"}

\* \w of the re module (ASCII part)
IsWord(c) == c \in Range(UpperCase) \cup Range(LowerCase) \cup Digits \cup {"_"}

lower_char(c) ==
    IF \E i \in DOMAIN UpperCase : UpperCase[i] = c
    THEN LowerCase[CHOOSE i \in DOMAIN UpperCase : UpperCase[i] = c]
    ELSE c

\* str.lower()
lower(s) == [i \in DOMAIN s |-> lower_char(s[i])]

\* s[i:] starts with sub, i a 1-based position
StartsAt(s, i, sub) ==
    /\ i >= 1
    /\ i + Len(sub) - 1 <= Len(s)
    /\ \A k \in 1..Len(sub) : s[i + k - 1] = sub[k]

\* sub in s
Contains(s, sub) == \E i \in 1..(Len(s) + 1) : StartsAt(s, i, sub)

Least(S) == CHOOSE x \in S : \A y \in S : x <= y

Greatest(S) == CHOOSE x \in S : \A y \in S : x >= y

\* the least position >= i where sub starts in s, 0 when there is none
Find(s, sub, i) ==
    LET found == {p \in i..Len(s) : StartsAt(s, p, sub)}
    IN  IF found = {} THEN 0 ELSE Least(found)

\* str.split(sep), sep not empty
RECURSIVE split_on(_, _)
split_on(s, sep) ==
    LET p == Find(s, sep, 1) IN
    IF p = 0 THEN <<s>>
    ELSE <<SubSeq(s, 1, p - 1)>> \o split_on(SubSeq(s, p + Len(sep), Len(s)), sep)

\* the end of the run of whitespace that starts at i (i itself when there is none)
SkipSpace(s, i) == Least({j \in i..(Len(s) + 1) : j > Len(s) \/ ~IsSpace(s[j])})

\* the end of the run of non-whitespace characters that starts at i
SkipNonSpace(s, i) == Least({j \in i..(Len(s) + 1) : j > Len(s) \/ IsSpace(s[j])})

\* the end of the run of word characters that starts at i
SkipWord(s, i) == Least({j \in i..(Len(s) + 1) : j > Len(s) \/ ~IsWord(s[j])})

\* str.strip(): from the first to the last character that is not whitespace
strip(s) ==
    LET solid == {j \in 1..Len(s) : ~IsSpace(s[j])}
    IN  IF solid = {} THEN <<>> ELSE SubSeq(s, Least(solid), Greatest(solid))

\* str.split(): the maximal runs of non-whitespace characters, from position i on
RECURSIVE split_ws(_, _)
split_ws(s, i) ==
    LET k == SkipSpace(s, i) IN
    IF k > Len(s) THEN <<>>
    ELSE <<SubSeq(s, k, SkipNonSpace(s, k) - 1)>> \o split_ws(s, SkipNonSpace(s, k))

\* sep.join(parts)
RECURSIVE join(_, _)
join(sep, parts) ==
    IF parts = <<>> THEN <<>>
    ELSE IF Len(parts) = 1 THEN parts[1]
    ELSE parts[1] \o sep \o join(sep, Tail(parts))

\* the concatenation of a sequence of texts
Concat(parts) == join(<<>>, parts)

----------------------------------------------------------------------------
(* Exact fractions.                                                        *)

RECURSIVE GCD(_, _)
GCD(a, b) == IF b = 0 THEN a ELSE GCD(b, a % b)

\* n / d in lowest terms, n >= 0, d > 0
Frac(n, d) == LET g == GCD(n, d) IN [num |-> n \div g, den |-> d \div g]

FracAdd(p, q) == Frac(p.num * q.den + q.num * p.den, p.den * q.den)

FracLeq(p, q) == p.num * q.den <= q.num * p.den

\* min(p, q)
FracMin(p, q) == IF FracLeq(p, q) THEN p ELSE q

max(a, b) == IF a >= b THEN a ELSE b

----------------------------------------------------------------------------
(* The regular expressions of the source.  Each Match operator gives, for  *)
(* a text s and a 1-based position i, the position just after the match    *)
(* that starts at i, or 0 when the expression does not match at i.         *)

kw_if == <<"i", "f">>
kw_for == <<"f", "o", "r">>
kw_while == <<"w", "h", "i", "l", "e">>
kw_def == <<"d", "e", "f">>
kw_func == <<"f", "u", "n", "c">>
kw_class == <<"c", "l", "a", "s", "s">>
hash_mark == <<"#">>
triple_double == <<"\"", "\"", "\"">>
triple_single == <<"'", "'", "'">>
\* The backquote character cannot be written in a string of this language: the
\* one-character string of the backquote is written "BQ".
fence == <<"BQ", "BQ", "BQ">>

\* the first of the alternatives alts (a sequence of texts) that starts at i: the
\* position after it, or 0
RECURSIVE MatchAlt(_, _, _)
MatchAlt(s, i, alts) ==
    IF alts = <<>> THEN 0
    ELSE IF StartsAt(s, i, Head(alts)) THEN i + Len(Head(alts))
    ELSE MatchAlt(s, i, Tail(alts))

\* (\s+)(if|for|while)
MatchNested(s, i) ==
    IF i <= Len(s) /\ IsSpace(s[i])
    THEN MatchAlt(s, SkipSpace(s, i), <<kw_if, kw_for, kw_while>>)
    ELSE 0

\* kw\s+\w+ for the first keyword of kws that starts at i
MatchDefinition(s, i, kws) ==
    LET j == MatchAlt(s, i, kws)
        k == SkipSpace(s, j)
    IN  IF j = 0 THEN 0
        ELSE IF k > j /\ k <= Len(s) /\ IsWord(s[k]) THEN SkipWord(s, k)
        ELSE 0

\* (def|func)\s+\w+
MatchFunction(s, i) == MatchDefinition(s, i, <<kw_def, kw_func>>)

\* class\s+\w+
MatchClass(s, i) == MatchDefinition(s, i, <<kw_class>>)

\* the doc_lines expression: a hash, three double quotes or three single quotes
MatchDocMarker(s, i) == MatchAlt(s, i, <<hash_mark, triple_double, triple_single>>)

\* the function_docs expression: three double quotes, lazily anything, three double
\* quotes
MatchDocstring(s, i) ==
    IF StartsAt(s, i, triple_double)
    THEN LET p == Find(s, triple_double, i + 3) IN IF p = 0 THEN 0 ELSE p + 3
    ELSE 0

\* the positions c >= from of a ":" that the lazy wildcard can reach from there (no newline before
\* it) and after which optional whitespace and a docstring match
ClassDocColons(s, from) ==
    {c \in from..Len(s) :
        /\ s[c] = ":"
        /\ \A k \in from..(c - 1) : s[k] # "\n"
        /\ MatchDocstring(s, SkipSpace(s, c + 1)) # 0}

\* the class_docs expression: class, lazily anything but a newline, a colon,
\* optional whitespace, a docstring
MatchClassDoc(s, i) ==
    IF StartsAt(s, i, kw_class) /\ ClassDocColons(s, i + 5) # {}
    THEN MatchDocstring(s, SkipSpace(s, Least(ClassDocColons(s, i + 5)) + 1))
    ELSE 0

\* ^\s*(def|class|if|for|while), as re.match applies it to one line
MatchesProperSpacing(line) ==
    MatchAlt(line, SkipSpace(line, 1), <<kw_def, kw_class, kw_if, kw_for, kw_while>>) # 0

\* a fence, [\w]*, a newline, lazily anything (re.DOTALL), a fence: [start of the group, end of the group + 1,
\* end of the match + 1], or <<>> when there is no match at i
MatchCodeBlock(s, i) ==
    LET k == SkipWord(s, i + 3)
        p == Find(s, fence, k + 1)
    IN  IF StartsAt(s, i, fence) /\ k <= Len(s) /\ s[k] = "\n" /\ p # 0
        THEN <<k + 1, p, p + 3>>
        ELSE <<>>

\* re.findall: ends maps each position where the expression matches to the end of
\* that match; the scan takes the leftmost match at or after i and resumes after it.
\* The starts of the matches taken, in order.
RECURSIVE Scan(_, _)
Scan(ends, i) ==
    LET ahead == {m \in DOMAIN ends : m >= i} IN
    IF ahead = {} THEN <<>>
    ELSE <<Least(ahead)>> \o Scan(ends, max(ends[Least(ahead)], Least(ahead) + 1))

\* len(re.findall(expression, s)): matched[i] is the end of the match at i, or 0
CountMatches(matched) ==
    LET at == {i \in DOMAIN matched : matched[i] # 0}
    IN  Len(Scan([i \in at |-> matched[i]], 1))

CountNested(s) == CountMatches([i \in 1..Len(s) |-> MatchNested(s, i)])
CountFunction(s) == CountMatches([i \in 1..Len(s) |-> MatchFunction(s, i)])
CountClass(s) == CountMatches([i \in 1..Len(s) |-> MatchClass(s, i)])
CountDocMarker(s) == CountMatches([i \in 1..Len(s) |-> MatchDocMarker(s, i)])
CountDocstring(s) == CountMatches([i \in 1..Len(s) |-> MatchDocstring(s, i)])
CountClassDoc(s) == CountMatches([i \in 1..Len(s) |-> MatchClassDoc(s, i)])

\* re.findall with one group: matched[i] is <<>> or <<start of the group, end of
\* the group + 1, end of the match + 1>>; the groups of the matches taken, in order
FindAllGroups(s, matched) ==
    LET at == {i \in DOMAIN matched : matched[i] # <<>>}
        taken == Scan([i \in at |-> matched[i][3]], 1)
    IN  [k \in DOMAIN taken |-> SubSeq(s, matched[taken[k]][1], matched[taken[k]][2] - 1)]

----------------------------------------------------------------------------
(* evaluate_code_quality                                                   *)

Zero == [num |-> 0, den |-> 1]
One == [num |-> 1, den |-> 1]

\* a line counts as long when its stripped length exceeds this
LongLineLimit == 80

nested_depth(code) == CountNested(code)
function_count(code) == CountFunction(code)
class_count(code) == CountClass(code)

\* ((nested_depth * 0.4) + (function_count * 0.3) + (class_count * 0.3)) / 10.0
complexity_score(code) ==
    Frac(4 * nested_depth(code) + 3 * function_count(code) + 3 * class_count(code), 100)

\* metrics['complexity'] = min(1.0, complexity_score)
complexity(code) == FracMin(One, complexity_score(code))

code_lines(code) == split_on(code, <<"\n">>)

IsLongLine(line) == Len(strip(line)) > LongLineLimit
IsEmptyLine(line) == strip(line) = <<>>

\* sum(1 for line in lines if len(line.strip()) > 80)
long_lines(code) ==
    Cardinality({i \in DOMAIN code_lines(code) : IsLongLine(code_lines(code)[i])})

\* sum(1 for line in lines if not line.strip())
empty_lines(code) ==
    Cardinality({i \in DOMAIN code_lines(code) : IsEmptyLine(code_lines(code)[i])})

\* sum(1 for line in lines if re.match(..., line))
proper_spacing(code) ==
    Cardinality({i \in DOMAIN code_lines(code) : MatchesProperSpacing(code_lines(code)[i])})

\* a variant of readability_score whose total counts only the lines that are not blank
readability_score_nonblank_total(code) ==
    LET total == max(1, Len(code_lines(code)) - empty_lines(code)) IN
    FracAdd(FracAdd(Frac(4 * (total - long_lines(code)), 10 * total),
                    Frac(3 * empty_lines(code), 10 * total)),
            Frac(3 * proper_spacing(code), 10 * total))

\* (1.0 - long_lines / max(1, len(lines))) * 0.4 + (empty_lines / max(1, len(lines))) * 0.3
\*   + (proper_spacing / max(1, len(lines))) * 0.3
readability_score(code) ==
    LET total == max(1, Len(code_lines(code))) IN
    FracAdd(FracAdd(Frac(4 * (total - long_lines(code)), 10 * total),
                    Frac(3 * empty_lines(code), 10 * total)),
            Frac(3 * proper_spacing(code), 10 * total))

\* metrics['readability'] = readability_score
readability(code) == readability_score(code)

doc_lines(code) == CountDocMarker(code)
function_docs(code) == CountDocstring(code)
class_docs(code) == CountClassDoc(code)

\* (doc_lines / max(1, len(lines))) * 0.4 + (function_docs / max(1, function_count)) * 0.3
\*   + (class_docs / max(1, class_count)) * 0.3
documentation_score(code) ==
    FracAdd(FracAdd(Frac(4 * doc_lines(code), 10 * max(1, Len(code_lines(code)))),
                    Frac(3 * function_docs(code), 10 * max(1, function_count(code)))),
            Frac(3 * class_docs(code), 10 * max(1, class_count(code))))

\* a variant of documentation without the final min(1.0, ...)
documentation_unclamped(code) == documentation_score(code)

\* metrics['documentation'] = min(1.0, documentation_score)
documentation(code) == FracMin(One, documentation_score(code))

evaluate_code_quality(code) ==
    [complexity |-> complexity(code),
     readability |-> readability(code),
     documentation |-> documentation(code)]

----------------------------------------------------------------------------
(* evaluate_task_completion                                                *)

criteria_header == <<"S", "u", "c", "c", "e", "s", "s", " ", "C", "r", "i", "t", "e",
                     "r", "i", "a", ":", "\n", "-">>

\* where the lazy group of the success-criteria expression ends: the least e >= b at
\* which a blank line starts or $ matches (the end of the text, or just before its
\* final newline)
CriteriaGroupEnd(s, b) ==
    Least({e \in b..(Len(s) + 1) :
              \/ StartsAt(s, e, <<"\n", "\n">>)
              \/ e = Len(s) + 1
              \/ e = Len(s) /\ s[e] = "\n"})

\* Success Criteria:\n-(.*?)(?:\n\n|$) under re.DOTALL
MatchCriteria(s, i) ==
    IF StartsAt(s, i, criteria_header)
    THEN LET b == i + Len(criteria_header)
             e == CriteriaGroupEnd(s, b)
         IN  <<b, e, IF StartsAt(s, e, <<"\n", "\n">>) THEN e + 2 ELSE e>>
    ELSE <<>>

success_criteria(content) ==
    FindAllGroups(content, [i \in 1..Len(content) |-> MatchCriteria(content, i)])

NotBlank(c) == strip(c) # <<>>

\* [c.strip() for c in success_criteria[0].split('\n-') if c.strip()]
criteria_list(content) ==
    LET kept == SelectSeq(split_on(success_criteria(content)[1], <<"\n", "-">>), NotBlank)
    IN  [i \in DOMAIN kept |-> strip(kept[i])]

completion_indicators ==
    << <<"c", "o", "m", "p", "l", "e", "t", "e", "d">>,
       <<"f", "i", "n", "i", "s", "h", "e", "d">>,
       <<"d", "o", "n", "e">>,
       <<"s", "u", "c", "c", "e", "s", "s", "f", "u", "l", "l", "y">>,
       <<"i", "m", "p", "l", "e", "m", "e", "n", "t", "e", "d">>,
       <<"f", "i", "x", "e", "d">> >>

\* if indicator in response.lower()
IndicatorPresent(resp, indicator) == Contains(lower(resp), indicator)

\* any(part.lower() in response.lower() for part in criterion.split())
CriterionMet(resp, criterion) ==
    \E part \in Range(split_ws(criterion, 1)) : Contains(lower(resp), lower(part))

\* a variant of the first loop that stops at the first indicator present
RECURSIVE AddIndicators_first_only(_, _, _)
AddIndicators_first_only(resp, indicators, score) ==
    IF indicators = <<>> THEN score
    ELSE IF IndicatorPresent(resp, Head(indicators)) THEN FracAdd(score, Frac(2, 10))
    ELSE AddIndicators_first_only(resp, Tail(indicators), score)

\* the first loop: score += 0.2 for each indicator present
RECURSIVE AddIndicators(_, _, _)
AddIndicators(resp, indicators, score) ==
    IF indicators = <<>> THEN score
    ELSE AddIndicators(resp, Tail(indicators),
                       IF IndicatorPresent(resp, Head(indicators))
                       THEN FracAdd(score, Frac(2, 10)) ELSE score)

\* a variant of the second loop that inserts each criterion met at the front
RECURSIVE AddCriteria_prepend(_, _, _)
AddCriteria_prepend(resp, criteria, acc) ==
    IF criteria = <<>> THEN acc
    ELSE AddCriteria_prepend(resp, Tail(criteria),
                             IF CriterionMet(resp, Head(criteria))
                             THEN [score |-> FracAdd(acc.score, Frac(3, 10)),
                                   met_criteria |-> <<Head(criteria)>> \o acc.met_criteria]
                             ELSE acc)

\* the second loop: score += 0.3 and met_criteria.append(criterion) for each
\* criterion met; acc is [score, met_criteria]
RECURSIVE AddCriteria(_, _, _)
AddCriteria(resp, criteria, acc) ==
    IF criteria = <<>> THEN acc
    ELSE AddCriteria(resp, Tail(criteria),
                     IF CriterionMet(resp, Head(criteria))
                     THEN [score |-> FracAdd(acc.score, Frac(3, 10)),
                           met_criteria |-> Append(acc.met_criteria, Head(criteria))]
                     ELSE acc)

\* return min(1.0, score), met_criteria
CompletionResult(acc) ==
    [raised |-> "", score |-> FracMin(One, acc.score), met_criteria |-> acc.met_criteria]

\* a variant of evaluate_task_completion that takes a missing section for an empty
\* criteria list
evaluate_task_completion_default(resp, content) ==
    CompletionResult(
        AddCriteria(resp,
                    IF success_criteria(content) = <<>> THEN <<>> ELSE criteria_list(content),
                    [score |-> AddIndicators(resp, completion_indicators, Zero),
                     met_criteria |-> <<>>]))

\* content is what open(task_file).read() gives; success_criteria[0] raises
\* IndexError when the expression found nothing
evaluate_task_completion(resp, content) ==
    IF success_criteria(content) = <<>>
    THEN [raised |-> "IndexError"]
    ELSE CompletionResult(
             AddCriteria(resp, criteria_list(content),
                         [score |-> AddIndicators(resp, completion_indicators, Zero),
                          met_criteria |-> <<>>]))

----------------------------------------------------------------------------
(* evaluate_response_coherence                                             *)

DigitSeq == <<"0", "1", "2", "3", "4", "5", "6", "7", "8", "9">>

thoughts_heading == <<"#", " ", "T", "h", "o", "u", "g", "h", "t", "s">>

\* f'step {i}' for i in range(10)
step_markers == [i \in DOMAIN DigitSeq |-> <<"s", "t", "e", "p", " ", DigitSeq[i]>>]

explanation_keywords ==
    << <<"b", "e", "c", "a", "u", "s", "e">>,
       <<"t", "h", "e", "r", "e", "f", "o", "r", "e">>,
       <<"s", "i", "n", "c", "e">> >>

conclusion_keywords ==
    << <<"f", "i", "n", "a", "l", "l", "y">>,
       <<"i", "n", " ", "c", "o", "n", "c", "l", "u", "s", "i", "o", "n">>,
       <<"t", "o", " ", "s", "u", "m", "m", "a", "r", "i", "z", "e">> >>

\* any(keyword in response.lower() for keyword in keywords)
AnyIn(resp, keywords) == \E k \in Range(keywords) : Contains(lower(resp), k)

\* a variant of structure_elements that looks for the heading in the lowered text
structure_elements_lowered(resp) ==
    [thoughts |-> Contains(lower(resp), lower(thoughts_heading)),
     steps |-> AnyIn(resp, step_markers),
     explanation |-> AnyIn(resp, explanation_keywords),
     conclusion |-> AnyIn(resp, conclusion_keywords)]

structure_elements(resp) ==
    [thoughts |-> Contains(resp, thoughts_heading),
     steps |-> AnyIn(resp, step_markers),
     explanation |-> AnyIn(resp, explanation_keywords),
     conclusion |-> AnyIn(resp, conclusion_keywords)]

\* sum(1 for v in structure_elements.values() if v) / len(structure_elements)
evaluate_response_coherence(resp) ==
    LET elements == structure_elements(resp) IN
    Frac(Cardinality({k \in DOMAIN elements : elements[k]}), Cardinality(DOMAIN elements))

----------------------------------------------------------------------------
(* evaluate_response                                                       *)

\* re.findall(r'...', response, re.DOTALL) for the fenced code blocks
code_blocks(resp) == FindAllGroups(resp, [i \in 1..Len(resp) |-> MatchCodeBlock(resp, i)])

\* '\n'.join(code_blocks) if code_blocks else ''
extracted_code(resp) ==
    IF code_blocks(resp) # <<>> THEN join(<<"\n">>, code_blocks(resp)) ELSE <<>>

zero_quality == [complexity |-> Zero, readability |-> Zero, documentation |-> Zero]

\* a variant of code_quality without the shortcut for empty code
code_quality_always(code) == evaluate_code_quality(code)

\* evaluate_code_quality(code) if code else the zero record
code_quality(code) == IF code # <<>> THEN evaluate_code_quality(code) ELSE zero_quality

\* content is the text of task_file, now is what time.time() returns; the value
\* returned is the TaskMetrics record
evaluate_response(resp, content, start, now) ==
    LET quality == code_quality(extracted_code(resp))
        completion == evaluate_task_completion(resp, content)
    IN  IF completion.raised # ""
        THEN [raised |-> completion.raised]
        ELSE [raised |-> "",
              value |-> [class |-> "TaskMetrics",
                         complexity |-> quality.complexity,
                         readability |-> quality.readability,
                         documentation |-> quality.documentation,
                         task_completion |-> completion.score,
                         response_coherence |-> evaluate_response_coherence(resp),
                         time_to_completion |-> now - start,
                         success_criteria_met |-> completion.met_criteria]]

----------------------------------------------------------------------------
(* collect_metrics                                                         *)

txt_suffix == <<".", "t", "x", "t">>

\* Path.stem: the file name without its last suffix
stem(name) ==
    LET dots == {i \in 2..Len(name) : name[i] = "."}
    IN  IF dots = {} THEN name ELSE SubSeq(name, 1, Greatest(dots) - 1)

\* a variant of record_key that takes a missing metaprompt name for an empty one
record_key_lenient(name) ==
    LET parts == split_on(stem(name), <<"_">>) IN
    [raised |-> "",
     key |-> parts[1] \o <<"_">> \o (IF Len(parts) < 2 THEN <<>> ELSE parts[2])]

\* task_name = stem.split("_")[0], metaprompt_name = stem.split("_")[1] (IndexError
\* when the stem has no underscore), and the key f"{task_name}_{metaprompt_name}"
record_key(name) ==
    LET parts == split_on(stem(name), <<"_">>) IN
    IF Len(parts) < 2 THEN [raised |-> "IndexError"]
    ELSE [raised |-> "", key |-> parts[1] \o <<"_">> \o parts[2]]

\* a variant of task_file_content that reads a task specification kept beside the
\* result file
task_file_content_colocated(file) ==
    <<"S", "u", "c", "c", "e", "s", "s", " ", "C", "r", "i", "t", "e", "r", "i", "a", ":", "\n",
      "-", " ", "a", "d", "d", " ", "t", "e", "s", "t", "s", "\n",
      "-", " ", "u", "p", "d", "a", "t", "e", " ", "d", "o", "c", "s", "\n">>

\* evaluate_response(response, result_file, start_time): the task file whose text
\* evaluate_task_completion reads is the result file itself
task_file_content(file) == file.content

\* metrics[key] = value on a dict that keeps insertion order: a sequence of items
dict_set(items, key, value) ==
    IF \E i \in DOMAIN items : items[i].key = key
    THEN [i \in DOMAIN items |->
             IF items[i].key = key THEN [key |-> key, value |-> value] ELSE items[i]]
    ELSE Append(items, [key |-> key, value |-> value])

\* the classes json can encode; a TaskMetrics dataclass instance is none of them
JsonTypes == {"dict", "list", "str", "int", "float", "bool", "NoneType"}

\* json.dump(metrics, f, indent=2), as the chunks written to f: the encoder writes
\* what precedes a value before it meets the value, and raises TypeError on a value
\* of a class it cannot encode
RECURSIVE json_dump_items(_, _)
json_dump_items(items, first) ==
    IF items = <<>> THEN [text |-> <<"}">>, raised |-> ""]
    ELSE LET opening == <<IF first THEN "{" ELSE ",", items[1].key, ":">>
             rest == json_dump_items(Tail(items), FALSE)
         IN  IF items[1].value.class \notin JsonTypes
             THEN [text |-> opening, raised |-> "TypeError"]
             ELSE [text |-> opening \o <<items[1].value>> \o rest.text,
                   raised |-> rest.raised]

json_dump(items) ==
    IF items = <<>> THEN [text |-> <<"{}">>, raised |-> ""]
    ELSE json_dump_items(items, TRUE)

----------------------------------------------------------------------------
(* The inputs of the model.                                                *)

\* the number of code tokens of a generated code block
MaxCodeTokens == 3

\* the number of entries of a generated success-criteria block
MaxCriteria == 2

\* the number of result files of a results directory
MaxFiles == 2

\* the number of repetitions in the stress sample: enough control-flow keywords and
\* comment markers for the raw complexity and documentation scores to exceed 1
ManyMarks == 26

\* text repeated n times
Repeat(text, n) == [i \in 1..(n * Len(text)) |-> text[((i - 1) % Len(text)) + 1]]

\* the sequences over S of length at most n
SeqsUpTo(S, n) == UNION {[1..k -> S] : k \in 0..n}

\* the members of words whose index is in chosen, in their order, joined by sep
Pick(words, chosen, sep) ==
    LET Chosen(i) == i \in chosen
        picked == SelectSeq([i \in DOMAIN words |-> i], Chosen)
    IN  join(sep, [k \in DOMAIN picked |-> words[picked[k]]])

\* words of a response that match (or contain) the completion indicators and the
\* tokens of the criteria
CompletionWords ==
    << <<"C", "o", "m", "p", "l", "e", "t", "e", "d">>,
       <<"f", "i", "n", "i", "s", "h", "e", "d">>,
       <<"u", "n", "d", "o", "n", "e">>,
       <<"S", "u", "c", "c", "e", "s", "s", "f", "u", "l", "l", "y">>,
       <<"I", "M", "P", "L", "E", "M", "E", "N", "T", "E", "D">>,
       <<"p", "r", "e", "f", "i", "x", "e", "d">>,
       <<"T", "E", "S", "T", "S">>,
       <<"p", "a", "d", "d", "l", "e">> >>

CompletionResponses == {Pick(CompletionWords, S, <<" ">>) : S \in SUBSET DOMAIN CompletionWords}

\* phrases of a response that are (or resemble) the coherence markers
CoherencePhrases ==
    << <<"#", " ", "T", "h", "o", "u", "g", "h", "t", "s">>,
       <<"#", " ", "t", "h", "o", "u", "g", "h", "t", "s">>,
       <<"S", "t", "e", "p", " ", "7">>,
       <<"s", "t", "e", "p", " ", "x">>,
       <<"B", "e", "c", "a", "u", "s", "e">>,
       <<"s", "i", "n", "c", "e">>,
       <<"F", "I", "N", "A", "L", "L", "Y">>,
       <<"t", "o", " ", "s", "u", "m", "m", "a", "r", "i", "z", "e">> >>

CoherenceResponses ==
    {Pick(CoherencePhrases, S, <<"\n">>) : S \in SUBSET DOMAIN CoherencePhrases}

CodeTokens ==
    {<<" ">>, <<"\n">>, kw_if, kw_def, <<"x">>, hash_mark, triple_double}

\* a response that is one fenced block tagged py
Fenced(code) == fence \o <<"p", "y", "\n">> \o code \o fence

CodeResponses == {Fenced(Concat(c)) : c \in SeqsUpTo(CodeTokens, MaxCodeTokens)}

sample_completion ==
    <<"I", " ", "h", "a", "v", "e", " ", "s", "u", "c", "c", "e", "s", "s", "f", "u",
      "l", "l", "y", " ", "c", "o", "m", "p", "l", "e", "t", "e", "d", " ", "t", "h",
      "e", " ", "t", "a", "s", "k", ".", " ", "#", " ", "T", "h", "o", "u", "g", "h",
      "t", "s", ":", " ", "b", "e", "c", "a", "u", "s", "e", " ", "i", "t", " ", "w",
      "o", "r", "k", "s", ",", " ", "f", "i", "n", "a", "l", "l", "y", " ", "d", "o",
      "n", "e", ".">>

sample_coherence ==
    <<"#", " ", "T", "h", "o", "u", "g", "h", "t", "s", "\n", "s", "t", "e", "p", " ",
      "1", ":", " ", "b", "e", "c", "a", "u", "s", "e", " ", "X", ",", " ", "t", "h",
      "e", "r", "e", "f", "o", "r", "e", " ", "Y", ".", " ", "F", "i", "n", "a", "l",
      "l", "y", ",", " ", "d", "o", "n", "e", ".">>

sample_function ==
    <<"S", "e", "e", " ", "t", "h", "e", " ", "c", "o", "d", "e", ":", "\n", "BQ",
      "BQ", "BQ", "p", "y", "t", "h", "o", "n", "\n", "d", "e", "f", " ", "f", "o",
      "o", "(", ")", ":", "\n", " ", " ", " ", " ", "i", "f", " ", "T", "r", "u", "e",
      ":", "\n", " ", " ", " ", " ", " ", " ", " ", " ", "p", "a", "s", "s", "\n",
      "BQ", "BQ", "BQ", "\n">>

sample_empty_block ==
    <<"N", "o", "t", "h", "i", "n", "g", " ", "t", "o", " ", "s", "h", "o", "w", ":",
      "\n", "BQ", "BQ", "BQ", "\n", "BQ", "BQ", "BQ">>

sample_no_newline ==
    <<"I", "n", "l", "i", "n", "e", " ", "BQ", "BQ", "BQ", "p", "y", "t", "h", "o",
      "n", " ", "d", "e", "f", " ", "f", "BQ", "BQ", "BQ", " ", "o", "n", "l", "y">>

sample_unterminated == <<"BQ", "BQ", "BQ", "p", "y", "\n", "d", "e", "f", " ", "f">>

sample_two_blocks ==
    <<"BQ", "BQ", "BQ", "\n", "c", "l", "a", "s", "s", " ", "A", ":", "\n", " ", " ",
      " ", " ", "\"", "\"", "\"", "d", "o", "c", "\"", "\"", "\"", "\n", "BQ", "BQ",
      "BQ", "\n", "t", "h", "e", "n", "\n", "BQ", "BQ", "BQ", "p", "y", "\n", "d", "e",
      "f", " ", "f", "(", ")", ":", "\n", "\n", " ", " ", "#", " ", "x", "\n", "BQ",
      "BQ", "BQ">>

all_indicators ==
    <<"c", "o", "m", "p", "l", "e", "t", "e", "d", " ", "f", "i", "n", "i", "s", "h",
      "e", "d", " ", "d", "o", "n", "e", " ", "s", "u", "c", "c", "e", "s", "s", "f",
      "u", "l", "l", "y", " ", "i", "m", "p", "l", "e", "m", "e", "n", "t", "e", "d",
      " ", "f", "i", "x", "e", "d", "\n">>

\* every indicator, and a block whose raw complexity and documentation exceed 1, with
\* a long line, an empty line and a def line
sample_stress ==
    all_indicators
      \o Fenced(Repeat(hash_mark, ManyMarks) \o Repeat(<<" ">> \o kw_if, ManyMarks)
                  \o <<"\n", "\n">> \o Repeat(<<"x">>, LongLineLimit + 1)
                  \o <<"\n">> \o kw_def \o <<" ", "f">>)

\* a line of exactly LongLineLimit characters once stripped
sample_limit_line == Fenced(<<" ">> \o Repeat(<<"x">>, LongLineLimit) \o <<" ", "\n">>)

sample_all_criteria == <<"U", "p", "d", "a", "t", "e", "d", " ", "t", "h", "e", " ", "D", "o", "c", "s", ";", " ", "p", "a", "d", "d", "l", "e">>

sample_docs_only == <<"d", "o", "c", "s", " ", "o", "n", "l", "y">>

SampleResponses ==
    {sample_completion, sample_coherence, sample_function, sample_empty_block,
     sample_no_newline, sample_unterminated, sample_two_blocks, sample_stress,
     sample_limit_line, sample_all_criteria, sample_docs_only}

good_task ==
    <<"S", "u", "c", "c", "e", "s", "s", " ", "C", "r", "i", "t", "e", "r", "i", "a",
      ":", "\n", "-", " ", "a", "d", "d", " ", "t", "e", "s", "t", "s", "\n", "-", " ",
      "u", "p", "d", "a", "t", "e", " ", "d", "o", "c", "s", "\n">>

task_without_section ==
    <<"T", "a", "s", "k", ":", " ", "f", "i", "x", " ", "t", "h", "e", " ", "p", "a",
      "r", "s", "e", "r">>

task_without_dash ==
    <<"S", "u", "c", "c", "e", "s", "s", " ", "C", "r", "i", "t", "e", "r", "i", "a",
      ":", "\n", "n", "o", "n", "e">>

task_lowercase_heading ==
    <<"s", "u", "c", "c", "e", "s", "s", " ", "c", "r", "i", "t", "e", "r", "i", "a",
      ":", "\n", "-", " ", "a", "d", "d", " ", "t", "e", "s", "t", "s">>

CriteriaEntries ==
    {<<" ", "a", "d", "d", " ", "t", "e", "s", "t", "s">>,
     <<" ", "u", "p", "d", "a", "t", "e", " ", "d", "o", "c", "s", " ">>,
     <<" ", "D", "o", "c", "s">>,
     <<>>}

TaskTails == {<<>>, <<"\n", "\n", "N", "o", "t", "e", "s", ":", "\n", "-", " ", "f", "i", "x", "e", "d">>}

GeneratedTasks ==
    {criteria_header \o join(<<"\n", "-">>, entries) \o tail :
        entries \in SeqsUpTo(CriteriaEntries, MaxCriteria) \ {<<>>}, tail \in TaskTails}

MalformedTasks == {task_without_section, task_without_dash, task_lowercase_heading}

BasicTasks == {good_task, task_without_section}

AllTasks == GeneratedTasks \cup MalformedTasks \cup {good_task}

content_criteria ==
    <<"D", "o", "n", "e", ".", "\n", "S", "u", "c", "c", "e", "s", "s", " ", "C", "r",
      "i", "t", "e", "r", "i", "a", ":", "\n", "-", " ", "a", "d", "d", " ", "t", "e",
      "s", "t", "s", "\n", "-", " ", "U", "p", "d", "a", "t", "e", " ", "d", "o", "c",
      "s", "\n", "\n", "E", "n", "d">>

content_code ==
    <<"BQ", "BQ", "BQ", "p", "y", "\n", "i", "f", " ", "x", ":", "\n", "BQ", "BQ",
      "BQ", "\n", "S", "u", "c", "c", "e", "s", "s", " ", "C", "r", "i", "t", "e", "r",
      "i", "a", ":", "\n", "-", " ", "T", "e", "s", "t", "s", " ", "p", "a", "s", "s",
      "\n", "-", "\n", "-", " ", "f", "i", "x", "e", "d">>

content_plain ==
    <<"A", "l", "l", " ", "f", "i", "x", "e", "d", ",", " ", "n", "o", "t", "h", "i",
      "n", "g", " ", "t", "o", " ", "a", "d", "d", ".">>

FileContents == {content_criteria, content_code, content_plain}

FileStems == {<<"a", "_", "b">>, <<"a", "_", "b", "_", "c">>, <<"a", "b">>, <<"c", "_">>}

\* what results_dir.glob("*.txt") can yield for one file
ResultFiles ==
    {[name |-> s \o txt_suffix, content |-> c, st_mtime |-> 0] :
        s \in FileStems, c \in FileContents}

\* the listings of a results directory: no two files of one name
Listings ==
    {l \in SeqsUpTo(ResultFiles, MaxFiles) :
        \A i, j \in DOMAIN l : i # j => l[i].name # l[j].name}

NoReport == [exists |-> FALSE, text |-> <<>>]

OldReport == [exists |-> TRUE, text |-> <<"{", <<"o", "_", "p">>, ":", "old", "}">>]

----------------------------------------------------------------------------
(* The state machines.                                                     *)

NoResult == [raised |-> "", pending |-> TRUE]

\* collect_metrics() on a results directory
Init ==
    /\ pc = "loop"
    /\ files \in Listings
    /\ idx = 1
    /\ metrics = <<>>
    /\ report \in {NoReport, OldReport}
    /\ clock = 1
    /\ result = NoResult
    /\ response = <<>>
    /\ task_file = <<>>
    /\ start_time = 0

\* one iteration of the for loop over the result files
LoopIteration ==
    /\ pc = "loop"
    /\ idx <= Len(files)
    /\ LET file == files[idx]
           named == record_key(file.name)
           record == evaluate_response(file.content, task_file_content(file),
                                       file.st_mtime, clock)
       IN  IF named.raised # ""
           THEN /\ pc' = "raised"
                /\ result' = [raised |-> named.raised]
                /\ UNCHANGED <<metrics, idx, clock>>
           ELSE IF record.raised # ""
           THEN /\ pc' = "raised"
                /\ result' = [raised |-> record.raised]
                /\ UNCHANGED <<metrics, idx, clock>>
           ELSE /\ metrics' = dict_set(metrics, named.key, record.value)
                /\ idx' = idx + 1
                /\ clock' = clock + 1
                /\ UNCHANGED <<pc, result>>
    /\ UNCHANGED <<response, task_file, start_time, files, report>>

\* after the loop: open('evaluation_results.json', 'w') truncates the report,
\* json.dump writes it, and collect_metrics returns metrics
WriteReport ==
    /\ pc = "loop"
    /\ idx > Len(files)
    /\ LET dumped == json_dump(metrics)
       IN  /\ report' = [exists |-> TRUE, text |-> dumped.text]
           /\ IF dumped.raised # ""
              THEN pc' = "raised" /\ result' = [raised |-> dumped.raised]
              ELSE pc' = "returned" /\ result' = [raised |-> "", value |-> metrics]
    /\ UNCHANGED <<response, task_file, start_time, clock, files, idx, metrics>>

Next == LoopIteration \/ WriteReport

Spec == Init /\ [][Next]_vars

\* evaluate_response(response, task_file, start_time) as a call of its own
InitEval ==
    /\ pc = "call"
    /\ \/ /\ response \in CompletionResponses
          /\ task_file \in BasicTasks
       \/ /\ response \in CoherenceResponses \cup CodeResponses
          /\ task_file = good_task
       \/ /\ response \in SampleResponses
          /\ task_file \in AllTasks
    /\ start_time = 0
    /\ clock = 1
    /\ result = NoResult
    /\ files = <<>>
    /\ idx = 1
    /\ metrics = <<>>
    /\ report = NoReport

EvaluateResponse ==
    /\ pc = "call"
    /\ result' = evaluate_response(response, task_file, start_time, clock)
    /\ pc' = IF result'.raised # "" THEN "raised" ELSE "returned"
    /\ UNCHANGED <<response, task_file, start_time, clock, files, idx, metrics, report>>

NextEval == EvaluateResponse

SpecEval == InitEval /\ [][NextEval]_vars

----------------------------------------------------------------------------
(* The claims.                                                             *)

\* a score in [0, 1]
InUnit(q) == q.den > 0 /\ 0 <= q.num /\ q.num <= q.den

\* I: how many of the six indicator words occur in the lowered response
IndicatorsMatched(resp) ==
    Cardinality({k \in DOMAIN completion_indicators :
                    Contains(lower(resp), completion_indicators[k])})

\* criterion has a whitespace-separated token that occurs, whatever its case, in resp
TokenOccurs(criterion, resp) ==
    \E i \in 1..Len(criterion) : \E j \in i..Len(criterion) :
        /\ \A k \in i..j : ~IsSpace(criterion[k])
        /\ i = 1 \/ IsSpace(criterion[i - 1])
        /\ j = Len(criterion) \/ IsSpace(criterion[j + 1])
        /\ Contains(lower(resp), lower(SubSeq(criterion, i, j)))

\* C: how many criteria of the task specification have such a token
CriteriaMatched(resp, content) ==
    Cardinality({i \in DOMAIN criteria_list(content) :
                    TokenOccurs(criteria_list(content)[i], resp)})

\* C1: a response whose extracted code text is empty, in particular one with no fenced
\* code block, gets complexity = readability = documentation = 0
C1_NoCodeZeroQuality ==
    (pc = "returned" /\ (extracted_code(response) = <<>> \/ ~Contains(response, fence)))
        => /\ result.value.complexity = Zero
           /\ result.value.readability = Zero
           /\ result.value.documentation = Zero

\* a response without a fence, holding a comment marker, was scored
C1_Witness ==
    /\ pc = "returned"
    /\ ~Contains(response, fence)
    /\ Contains(response, hash_mark)
    /\ result.value.readability = Zero

\* C2: complexity, documentation and task_completion of every returned record lie in
\* [0, 1]
C2_ClampedScores ==
    pc = "returned"
        => /\ InUnit(result.value.complexity)
           /\ InUnit(result.value.documentation)
           /\ InUnit(result.value.task_completion)

\* a record was returned whose three raw scores all exceed 1
C2_Witness ==
    /\ pc = "returned"
    /\ ~FracLeq(complexity_score(extracted_code(response)), One)
    /\ ~FracLeq(documentation_score(extracted_code(response)), One)
    /\ 2 * IndicatorsMatched(response) + 3 * CriteriaMatched(response, task_file) > 10
    /\ result.value.complexity = One

C4_MetCriteriaSubsequence ==
    pc = "returned"
        => LET Met(c) == TokenOccurs(c, response)
           IN  result.value.success_criteria_met = SelectSeq(criteria_list(task_file), Met)

\* of two criteria the first was not met and the second was
C4_Witness ==
    /\ pc = "returned"
    /\ Len(criteria_list(task_file)) = 2
    /\ result.value.success_criteria_met = <<criteria_list(task_file)[2]>>

\* C5: response_coherence is the number of the four markers present, divided by 4: one
\* of 0, 0.25, 0.5, 0.75, 1, and 1 exactly when all four are present
C5_Coherence ==
    pc = "returned"
        => LET thoughts == Contains(response, thoughts_heading)
               steps == \E d \in Digits :
                            Contains(lower(response), <<"s", "t", "e", "p", " ", d>>)
               explanation == \E k \in Range(explanation_keywords) :
                                  Contains(lower(response), k)
               conclusion == \E k \in Range(conclusion_keywords) :
                                 Contains(lower(response), k)
               present == (IF thoughts THEN 1 ELSE 0) + (IF steps THEN 1 ELSE 0)
                            + (IF explanation THEN 1 ELSE 0) + (IF conclusion THEN 1 ELSE 0)
           IN  /\ result.value.response_coherence = Frac(present, 4)
               /\ result.value.response_coherence
                      \in {Zero, Frac(1, 4), Frac(1, 2), Frac(3, 4), One}
               /\ result.value.response_coherence = One
                      <=> (thoughts /\ steps /\ explanation /\ conclusion)

\* the response of the worked example was scored 1
C5_Witness ==
    /\ pc = "returned"
    /\ response = sample_coherence
    /\ result.value.response_coherence = One

\* C6: with a task specification that holds no success-criteria heading followed by a
\* dash, the call raises and returns no record
C6_MalformedTaskRaises ==
    (pc # "call" /\ ~Contains(task_file, criteria_header))
        => pc = "raised" /\ result = [raised |-> "IndexError"]

\* the call raised on a response that holds a code block
C6_Witness ==
    /\ pc = "raised"
    /\ extracted_code(response) # <<>>
    /\ ~Contains(task_file, criteria_header)

\* C9: the readability of non-empty code lies in [0, 1]: no line is both empty and
\* properly spaced, and long_lines is at most the number of lines
C9_ReadabilityInUnit ==
    (pc = "returned" /\ extracted_code(response) # <<>>)
        => LET code == extracted_code(response) IN
           /\ InUnit(result.value.readability)
           /\ long_lines(code) <= Len(code_lines(code))
           /\ \A i \in DOMAIN code_lines(code) :
                  ~(IsEmptyLine(code_lines(code)[i])
                      /\ MatchesProperSpacing(code_lines(code)[i]))

\* code with a long line, an empty line and a properly spaced line was scored
C9_Witness ==
    /\ pc = "returned"
    /\ long_lines(extracted_code(response)) > 0
    /\ empty_lines(extracted_code(response)) > 0
    /\ proper_spacing(extracted_code(response)) > 0

\* json.load of a report, as far as the chunks of json_dump go: the items of the
\* object, or a failure on a text that is no complete object
JsonLoad(text) ==
    IF text = <<"{}">> THEN [ok |-> TRUE, items |-> <<>>]
    ELSE IF /\ Len(text) % 4 = 1
            /\ Len(text) > 1
            /\ text[1] = "{"
            /\ text[Len(text)] = "}"
            /\ \A n \in 1..((Len(text) - 1) \div 4) :
                   /\ text[4 * n - 1] = ":"
                   /\ n > 1 => text[4 * n - 3] = ","
    THEN [ok |-> TRUE,
          items |-> [n \in 1..((Len(text) - 1) \div 4) |->
                        [key |-> text[4 * n - 2], value |-> text[4 * n]]]]
    ELSE [ok |-> FALSE]

\* C7: once collect_metrics has evaluated its N result files, the report, reloaded,
\* holds N keys, the keys evaluated, each with the fields of its record
C7_ReportRoundTrip ==
    (pc # "loop" /\ idx > Len(files))
        => /\ JsonLoad(report.text).ok
           /\ JsonLoad(report.text).items = metrics
           /\ Len(JsonLoad(report.text).items) = Len(files)

\* the stem of the file name has fewer than two underscore-separated segments
BadStem(name) == ~Contains(stem(name), <<"_">>)

HasBadStem == \E i \in DOMAIN files : BadStem(files[i].name)

\* C8: with a result file whose stem has fewer than two segments the run ends in an
\* error, the iteration on that file raises and stores nothing, and the report is
\* never written
C8_BadStemFails ==
    /\ []((HasBadStem /\ pc # "loop") => (pc = "raised" /\ result.raised = "IndexError"))
    /\ [][HasBadStem =>
            /\ report' = report
            /\ (pc = "loop" /\ idx <= Len(files) /\ BadStem(files[idx].name))
                  => (pc' = "raised" /\ metrics' = metrics)]_vars

\* the run raised at a file with a bad stem, after it stored a record, the old report
\* still in place
C8_Witness ==
    /\ pc = "raised"
    /\ idx <= Len(files)
    /\ BadStem(files[idx].name)
    /\ metrics # <<>>
    /\ report = OldReport

\* the last file evaluated, of those stored under key
LastFileOf(key) ==
    files[Greatest({i \in 1..(idx - 1) : record_key(files[i].name).key = key})]

\* C10: every record of a batch run lists as met every criterion extracted from its
\* own result file
C10_AllCriteriaMet ==
    \A n \in DOMAIN metrics :
        /\ success_criteria(LastFileOf(metrics[n].key).content) # <<>>
        /\ metrics[n].value.success_criteria_met
               = criteria_list(LastFileOf(metrics[n].key).content)

\* a record lists two criteria
C10_Witness ==
    \E n \in DOMAIN metrics : Len(metrics[n].value.success_criteria_met) >= 2

====
